---- MODULE Spec2Model ----
(***************************************************************************)
(* FunCache: the cache engine (funcache/_cache.py), its bounded in-memory  *)
(* variant (funcache/_memory_cache.py) and its durable variant             *)
(* (funcache/_file_cache.py), as a state machine.                          *)
(*                                                                         *)
(* Class attributes are per OS process; after enable_multiprocessing the   *)
(* attributes _cache, _locks, _running_queries (and _accesses) of every    *)
(* process of the pool refer to the same manager objects.  The model keeps *)
(* one object per owner process and a reference ctx[p] per process.        *)
(***************************************************************************)
EXTENDS Integers, Sequences, FiniteSets, TLC

\* ------------------------------------------------------------------ bounds
NumWorkers == 1         \* pool_size: worker processes next to the main one
MaxArg == 2             \* overlapping calls are made with x in 1..MaxArg
MaxGets == 2            \* calls of the wrapper that may overlap in time
MaxSeqArg == 3          \* calls made one at a time, with x in 1..MaxSeqArg
MaxSeqGets == 3         \* calls of the wrapper made one at a time
CacheSize == 1          \* cache_size given to @MemoryCache(cache_size=...)
MaxDepth == 4           \* the interpreter's recursion limit, scaled down
MaxDecorations == 3     \* decorators applied in one run
MaxLen == 2             \* length of the sequences given to get_args_key
MaxInt == 1             \* the ints given to get_args_key are 0..MaxInt
MaxPoolGets == 5        \* calls of the wrapper made by the processes of a pool

Main == 0
Workers == 1 .. NumWorkers
Procs == {Main} \cup Workers

\* ------------------------------------------------------- argument values
\* A Python value: an int, a str (its characters), a list or a tuple.
PyInt(n) == [kind |-> "int", val |-> n]
PyStr(s) == [kind |-> "str", val |-> s]
PyList(xs) == [kind |-> "list", val |-> xs]
PyTuple(xs) == [kind |-> "tuple", val |-> xs]
RecursionError == [kind |-> "RecursionError", val |-> 0]

\* isinstance(args, collections.Iterable)
IsIterable(v) == v.kind \in {"str", "list", "tuple"}

\* The values `for arg in args` yields: iterating a str yields one-character
\* strs, iterating a list or a tuple yields its elements.
Iterate(v) ==
    IF v.kind = "str" THEN [i \in 1 .. Len(v.val) |-> PyStr(<<v.val[i]>>)]
    ELSE v.val

RECURSIVE get_args_key_at(_, _)
get_args_key_at(args, depth) ==
    IF depth > MaxDepth THEN RecursionError
    ELSE IF IsIterable(args)
    THEN LET items == Iterate(args)
             keys == [i \in 1 .. Len(items) |-> get_args_key_at(items[i], depth + 1)]
         IN  IF \E i \in 1 .. Len(items) : keys[i] = RecursionError
             THEN RecursionError
             ELSE PyTuple(keys)
    ELSE args

get_args_key(args) == get_args_key_at(args, 0)

\* The argument tuples the wrapper is called with: wrapper(x) gets args = (x,)
ArgsTo(max) == {PyTuple(<<PyInt(n)>>) : n \in 1 .. max}
Args == ArgsTo(MaxArg)
SeqArgs == ArgsTo(MaxSeqArg)
AllArgs == Args \cup SeqArgs

\* ------------------------------------------------------------ dictionaries
EmptyDict == [x \in {} |-> 0]
Put(d, k, v) == [x \in (DOMAIN d) \cup {k} |-> IF x = k THEN v ELSE d[x]]
Del(d, k) == [x \in (DOMAIN d) \ {k} |-> d[x]]

\* list.remove(x): drops the first occurrence
RECURSIVE ListRemove(_, _)
ListRemove(s, x) ==
    IF s = <<>> THEN <<>>
    ELSE IF Head(s) = x THEN Tail(s)
    ELSE <<Head(s)>> \o ListRemove(Tail(s), x)

InList(s, x) == \E i \in 1 .. Len(s) : s[i] = x

\* --------------------------------------------------------------- the state
VARIABLES
    variant,            \* the class the decorator is taken from
    cached_functions,   \* _cached_functions: func_key -> callable
    cache_files,        \* FileCache._cache_files: func_key -> path or None
    disk,               \* the cache file of each function
    is_active,          \* _is_active of each process
    is_init,            \* _is_init of each process
    multiprocessing,    \* _multiprocessing of each process
    at_exit_set,        \* FileCache._at_exit_set of each process
    ctx,                \* whose objects _cache, _locks, ... of a process refer to
    cache,              \* _cache objects: func_key -> (args_key -> result)
    running_queries,    \* _running_queries objects: list of (func_key, args_key)
    accesses,           \* MemoryCache._accesses objects: func_key -> list
    locks,              \* _locks objects: func_key -> holder, or Free
    pc,                 \* where each process is
    fn,                 \* self.func_key of the call in progress
    args,               \* args of the call in progress
    result,             \* local result of _get
    entry,              \* local entry of _get (line 151)
    changed,            \* local changed of save_files
    todo,               \* functions save_files still has to write
    returned,           \* what the last call that ended gave its caller
    gets,               \* calls of the wrapper made so far
    calls,              \* invocations of original_function at line 146
    bypass,             \* invocations of original_function at line 132
    wrapped,            \* what each decoration so far has returned
    recency,            \* (func_key, args_key) by last completed cached get
    evictions,          \* entries deleted from a sub-store so far
    started_after,      \* the processes that had exited when a process started
    key_in,             \* a value given to get_args_key
    key_out,            \* what get_args_key made of it
    waited,             \* the processes whose call found its marker present
    lost                \* the (func_key, args_key) whose computing party failed

vars == <<variant, cached_functions, cache_files, disk, is_active, is_init,
          multiprocessing, at_exit_set, ctx, cache, running_queries, accesses,
          locks, pc, fn, args, result, entry, changed, todo, returned, gets,
          calls, bypass, wrapped, recency, evictions, started_after, key_in,
          key_out, waited, lost>>

None == [kind |-> "None", val |-> 0]
NoArgs == PyTuple(<<>>)
NoCall == [kind |-> "nothing", by |-> Main, args |-> NoArgs, val |-> 0]

\* what the steps of one call leave alone
registry == <<variant, cached_functions, cache_files, wrapped>>
probe == <<key_in, key_out, started_after, waited, lost>>
flags == <<is_active, is_init, multiprocessing, at_exit_set, ctx>>
flush == <<changed, todo>>

\* the objects the class attributes of process p refer to
Cache(p) == cache[ctx[p]]
Running(p) == running_queries[ctx[p]]
Accesses(p) == accesses[ctx[p]]
Locks(p) == locks[ctx[p]]

\* ------------------------------------------------------------- decoration
\* A callable: its __qualname__ and its body, x ** exp (test.py lines 6-15)
Callable(q, e) == [qualname |-> q, exp |-> e]
TestFn == Callable("test_memory", 2)

\* self.original_function(*args) of the wrapper registered under f
original_function(f, a) == a.val[1].val ^ cached_functions[f].exp

\* ------------------------------------------------------------------ files
Absent == [kind |-> "absent", val |-> EmptyDict]
pickle_dump(d) == [kind |-> "dict", val |-> d]
\* a file opened with mode "wb" and not yet written: pickle.load raises EOFError
Truncated == [kind |-> "empty", val |-> EmptyDict]
pickle_load(file) == file.val

\* FileCache.get_default_cache_file_path with the default root and extension
get_default_cache_file_path(f) ==
    [kind |-> "path", val |-> <<"resources/database/", f, ".pkl">>]
FilePath(files, f) ==
    IF files[f] = None THEN get_default_cache_file_path(f) ELSE files[f]

\* ----------------------------------------------------------- Cache.init
\* for cached_function in cls._cached_functions: cls._cache[f] = dict()
base_init(c) ==
    [f \in (DOMAIN c) \cup (DOMAIN cached_functions) |->
        IF f \in DOMAIN cached_functions THEN EmptyDict ELSE c[f]]

\* MemoryCache.post_cache_init: _accesses[f] = list()
post_cache_init(acc) ==
    [f \in (DOMAIN acc) \cup (DOMAIN cached_functions) |->
        IF f \in DOMAIN cached_functions THEN <<>> ELSE acc[f]]

\* FileCache.init: the paths are resolved and every file is loaded
file_init_paths ==
    [f \in DOMAIN cache_files |->
        IF f \in DOMAIN cached_functions
        THEN FilePath(cache_files, f) ELSE cache_files[f]]

\* file_init with the files left unread
file_init_Unread(c) ==
    [f \in (DOMAIN c) \cup (DOMAIN cached_functions) |->
        IF f \in DOMAIN cached_functions THEN EmptyDict ELSE c[f]]

file_init(c) ==
    [f \in (DOMAIN c) \cup (DOMAIN cached_functions) |->
        IF f \in DOMAIN cached_functions
        THEN LET file == disk[FilePath(cache_files, f)]
             IN  IF file.kind = "absent" THEN EmptyDict ELSE pickle_load(file)
        ELSE c[f]]

\* init() as process p runs it: the new _cache, _accesses, _cache_files,
\* _at_exit_set and _is_init
InitCache(p) ==
    [cache EXCEPT ![ctx[p]] =
        IF variant = "file" THEN file_init(@) ELSE base_init(@)]
InitAccesses(p) ==
    [accesses EXCEPT ![ctx[p]] =
        IF variant = "memory" THEN post_cache_init(@) ELSE @]
InitFiles == IF variant = "file" THEN file_init_paths ELSE cache_files
InitAtExit(p) ==
    [at_exit_set EXCEPT ![p] =
        IF variant = "file" /\ DOMAIN cached_functions # {} THEN TRUE ELSE @]

\* `if not self._is_init: self.init()`, or init() called by the user
init(p, run) ==
    /\ cache' = IF run THEN InitCache(p) ELSE cache
    /\ accesses' = IF run THEN InitAccesses(p) ELSE accesses
    /\ cache_files' = IF run THEN InitFiles ELSE cache_files
    /\ at_exit_set' = IF run THEN InitAtExit(p) ELSE at_exit_set

\* ------------------------------------------------------------ Cache._get
\* the call ends: the wrapper hands `out` to its caller
Leave(p, out) ==
    /\ pc' = [pc EXCEPT ![p] = "idle"]
    /\ returned' = [out EXCEPT !.by = p]
    /\ fn' = [fn EXCEPT ![p] = ""]
    /\ args' = [args EXCEPT ![p] = NoArgs]
    /\ result' = [result EXCEPT ![p] = 0]
    /\ entry' = [entry EXCEPT ![p] = EmptyDict]
    /\ recency' = IF out.kind = "value" /\ is_active[p]
                  THEN Append(ListRemove(recency, <<fn[p], get_args_key(out.args)>>),
                              <<fn[p], get_args_key(out.args)>>)
                  ELSE recency

Value(a, v) == [kind |-> "value", by |-> Main, args |-> a, val |-> v]
Raised(a, e) == [kind |-> e, by |-> Main, args |-> a, val |-> 0]

Goto(p, label) == pc' = [pc EXCEPT ![p] = label]

\* wrapper with lines 134-135 run before the test of line 131
wrapper_InitFirst(p, f, a) ==
    /\ pc[p] = "idle"
    /\ f \in DOMAIN cached_functions
    /\ gets' = gets + 1
    /\ init(p, ~is_init[p])
    /\ is_init' = [is_init EXCEPT ![p] = TRUE]
    /\ IF ~is_active[p]
       THEN /\ bypass' = [bypass EXCEPT ![a] = @ + 1]
            /\ Leave(p, Value(a, original_function(f, a)))
            /\ UNCHANGED <<variant, cached_functions, wrapped, disk,
                           is_active, multiprocessing, ctx, running_queries,
                           locks, flush, calls>>
       ELSE /\ Goto(p, "wait")
            /\ fn' = [fn EXCEPT ![p] = f]
            /\ args' = [args EXCEPT ![p] = a]
            /\ UNCHANGED <<variant, cached_functions, wrapped, disk,
                           is_active, multiprocessing, ctx, running_queries,
                           locks, flush, calls, bypass, result, entry,
                           returned, recency>>
    /\ waited' = [waited EXCEPT ![p] = FALSE]
    /\ UNCHANGED <<key_in, key_out, started_after, lost, evictions>>

\* lines 131-137: the wrapper is called.  Deactivated, the function is
\* called directly; else the cache is initialized if need be.
wrapper(p, f, a) ==
    /\ pc[p] = "idle"
    /\ f \in DOMAIN cached_functions
    /\ gets' = gets + 1
    /\ IF ~is_active[p]
       THEN /\ bypass' = [bypass EXCEPT ![a] = @ + 1]
            /\ Leave(p, Value(a, original_function(f, a)))
            /\ UNCHANGED <<registry, disk, flags, cache, running_queries,
                           accesses, locks, flush, calls>>
       ELSE /\ init(p, ~is_init[p])
            /\ is_init' = [is_init EXCEPT ![p] = TRUE]
            /\ Goto(p, "wait")
            /\ fn' = [fn EXCEPT ![p] = f]
            /\ args' = [args EXCEPT ![p] = a]
            /\ UNCHANGED <<variant, cached_functions, wrapped, disk,
                           is_active, multiprocessing, ctx, running_queries,
                           locks, flush, calls, bypass, result, entry,
                           returned, recency>>
    /\ waited' = [waited EXCEPT ![p] = FALSE]
    /\ UNCHANGED <<key_in, key_out, started_after, lost, evictions>>

\* a call made while other calls may be in progress
Call(p, f, a) ==
    /\ gets < MaxGets
    /\ wrapper(p, f, a)

\* a call made while no other call or flush is in progress
SeqCall(p, f, a) ==
    /\ gets < MaxSeqGets
    /\ \A q \in Procs : pc[q] \in {"idle", "off", "exited"}
    /\ wrapper(p, f, a)

call_frame == <<registry, probe, disk, flags, flush, gets, bypass>>
step_frame == <<call_frame, evictions>>

\* lines 139-140: the marker is found present and the caller sleeps
Spin(p) ==
    /\ pc[p] = "wait"
    /\ InList(Running(p), <<fn[p], get_args_key(args[p])>>)
    /\ ~waited[p]
    /\ waited' = [waited EXCEPT ![p] = TRUE]
    /\ UNCHANGED <<registry, key_in, key_out, started_after, lost, disk, flags,
                   flush, gets, bypass, evictions, cache, running_queries,
                   accesses, locks, pc, fn, args, result, entry, returned,
                   recency, calls>>

\* lines 139-140: the marker is found absent and the loop ends
Wait(p) ==
    /\ pc[p] = "wait"
    /\ ~InList(Running(p), <<fn[p], get_args_key(args[p])>>)
    /\ Goto(p, "check")
    /\ UNCHANGED <<step_frame, cache, running_queries, accesses, locks, fn,
                   args, result, entry, returned, recency, calls>>

\* Check with the test of line 142 taken as true whatever the store holds
Check_AlwaysMiss(p) ==
    /\ pc[p] = "check"
    /\ IF fn[p] \notin DOMAIN Cache(p)
       THEN Leave(p, Raised(args[p], "KeyError"))
       ELSE /\ Goto(p, "mark")
            /\ UNCHANGED <<fn, args, result, entry, returned, recency>>
    /\ UNCHANGED <<step_frame, cache, running_queries, accesses, locks, calls>>

\* line 142: if args_key not in self._cache[self.func_key].keys()
Check(p) ==
    /\ pc[p] = "check"
    /\ IF fn[p] \notin DOMAIN Cache(p)
       THEN Leave(p, Raised(args[p], "KeyError"))
       ELSE /\ IF get_args_key(args[p]) \in DOMAIN Cache(p)[fn[p]]
               THEN Goto(p, "hit") ELSE Goto(p, "mark")
            /\ UNCHANGED <<fn, args, result, entry, returned, recency>>
    /\ UNCHANGED <<step_frame, cache, running_queries, accesses, locks, calls>>

\* line 162: result = self._cache[self.func_key][args_key]
Hit(p) ==
    /\ pc[p] = "hit"
    /\ IF get_args_key(args[p]) \in DOMAIN Cache(p)[fn[p]]
       THEN /\ result' = [result EXCEPT ![p] = Cache(p)[fn[p]][get_args_key(args[p])]]
            /\ Goto(p, "post")
            /\ UNCHANGED <<fn, args, entry, returned, recency>>
       ELSE Leave(p, Raised(args[p], "KeyError"))
    /\ UNCHANGED <<step_frame, cache, running_queries, accesses, locks, calls>>

\* lines 144-146: the marker is appended and the function is entered
Mark(p) ==
    /\ pc[p] = "mark"
    /\ running_queries' = [running_queries EXCEPT ![ctx[p]] =
            Append(@, <<fn[p], get_args_key(args[p])>>)]
    /\ calls' = [calls EXCEPT ![args[p]] = @ + 1]
    /\ Goto(p, "exec")
    /\ UNCHANGED <<step_frame, cache, accesses, locks, fn, args, result,
                   entry, returned, recency>>

\* what a failure of the computing party leaves alone
fail_frame == <<registry, key_in, key_out, started_after, waited, disk, flags,
                flush, gets, bypass, evictions, cache, accesses, locks, calls>>

\* Raise with the marker removed on the way out, as a try/finally would
Raise_Cleanup(p) ==
    /\ pc[p] = "exec"
    /\ lost' = lost \cup {<<ctx[p], fn[p], get_args_key(args[p])>>}
    /\ running_queries' = [running_queries EXCEPT ![ctx[p]] =
            ListRemove(@, <<fn[p], get_args_key(args[p])>>)]
    /\ Leave(p, Raised(args[p], "Exception"))
    /\ UNCHANGED fail_frame

\* line 146: the function raises; the exception leaves _get and the marker
\* appended at line 144 stays
Raise(p) ==
    /\ pc[p] = "exec"
    /\ lost' = lost \cup {<<ctx[p], fn[p], get_args_key(args[p])>>}
    /\ Leave(p, Raised(args[p], "Exception"))
    /\ UNCHANGED <<fail_frame, running_queries>>

\* lines 146-159: a process of the pool dies between the append of its
\* marker and its removal; the objects of the manager stay as they are
Die(p) ==
    /\ p \in Workers
    /\ multiprocessing[p]
    /\ pc[p] \in {"exec", "lock", "store", "unmark"}
    /\ lost' = lost \cup {<<ctx[p], fn[p], get_args_key(args[p])>>}
    /\ Goto(p, "dead")
    /\ UNCHANGED <<fail_frame, running_queries, fn, args, result, entry,
                   returned, recency>>

\* Compute with the marker removed as soon as the function returns
Compute_Unmarks(p) ==
    /\ pc[p] = "exec"
    /\ result' = [result EXCEPT ![p] = original_function(fn[p], args[p])]
    /\ running_queries' = [running_queries EXCEPT ![ctx[p]] =
            ListRemove(@, <<fn[p], get_args_key(args[p])>>)]
    /\ Goto(p, IF multiprocessing[p] THEN "lock" ELSE "store")
    /\ UNCHANGED <<step_frame, cache, accesses, locks, fn,
                   args, entry, returned, recency, calls>>

\* line 146: the function returns
Compute(p) ==
    /\ pc[p] = "exec"
    /\ result' = [result EXCEPT ![p] = original_function(fn[p], args[p])]
    /\ Goto(p, IF multiprocessing[p] THEN "lock" ELSE "store")
    /\ UNCHANGED <<step_frame, cache, running_queries, accesses, locks, fn,
                   args, entry, returned, recency, calls>>

\* lines 149-151: the lock is taken and entry is a copy of the shared dict
Acquire(p) ==
    /\ pc[p] = "lock"
    /\ Locks(p)[fn[p]] = {}
    /\ locks' = [locks EXCEPT ![ctx[p]][fn[p]] = {p}]
    /\ entry' = [entry EXCEPT ![p] = Cache(p)[fn[p]]]
    /\ Goto(p, "store")
    /\ UNCHANGED <<step_frame, cache, running_queries, accesses, fn, args,
                   result, returned, recency, calls>>

\* lines 152-155 (shared: the entry is written back and the lock released)
\* and line 158 (local: the dict is updated in place)
Store(p) ==
    /\ pc[p] = "store"
    /\ IF multiprocessing[p]
       THEN /\ cache' = [cache EXCEPT ![ctx[p]][fn[p]] =
                    Put(entry[p], get_args_key(args[p]), result[p])]
            /\ locks' = [locks EXCEPT ![ctx[p]][fn[p]] = {}]
       ELSE /\ cache' = [cache EXCEPT ![ctx[p]][fn[p]] =
                    Put(@, get_args_key(args[p]), result[p])]
            /\ UNCHANGED locks
    /\ entry' = [entry EXCEPT ![p] = EmptyDict]
    /\ Goto(p, "unmark")
    /\ UNCHANGED <<step_frame, running_queries, accesses, fn, args, result,
                   returned, recency, calls>>

\* line 159: self._running_queries.remove((self.func_key, args_key))
Unmark(p) ==
    /\ pc[p] = "unmark"
    /\ running_queries' = [running_queries EXCEPT ![ctx[p]] =
            ListRemove(@, <<fn[p], get_args_key(args[p])>>)]
    /\ Goto(p, "post")
    /\ UNCHANGED <<step_frame, cache, accesses, locks, fn, args, result,
                   entry, returned, recency, calls>>

\* --------------------------------------------------- post_get (line 163)
\* MemoryCache.post_get lines 52-55: the key moves to the tail
Touch(acc, k) == Append(ListRemove(acc, k), k)

\* Cache.post_get does nothing (FileCache inherits it); MemoryCache.post_get
\* takes the lock in shared mode (line 51) and runs lines 66-67 otherwise
PostGet(p) ==
    /\ pc[p] = "post"
    /\ IF variant # "memory"
       THEN /\ Leave(p, Value(args[p], result[p]))
            /\ UNCHANGED <<cache, accesses, locks, evictions>>
       ELSE IF multiprocessing[p]
       THEN /\ Locks(p)[fn[p]] = {}
            /\ locks' = [locks EXCEPT ![ctx[p]][fn[p]] = {p}]
            /\ Goto(p, "post_locked")
            /\ UNCHANGED <<cache, accesses, evictions, fn, args, result,
                           entry, returned, recency>>
       ELSE IF Len(Accesses(p)[fn[p]]) > CacheSize
       THEN LET victim == Head(Accesses(p)[fn[p]])
            IN  /\ accesses' = [accesses EXCEPT ![ctx[p]][fn[p]] = Tail(@)]
                /\ IF victim \in DOMAIN Cache(p)[fn[p]]
                   THEN /\ cache' = [cache EXCEPT ![ctx[p]][fn[p]] = Del(@, victim)]
                        /\ evictions' = evictions + 1
                        /\ Leave(p, Value(args[p], result[p]))
                   ELSE /\ UNCHANGED <<cache, evictions>>
                        /\ Leave(p, Raised(args[p], "KeyError"))
                /\ UNCHANGED locks
       ELSE /\ Leave(p, Value(args[p], result[p]))
            /\ UNCHANGED <<cache, accesses, locks, evictions>>
    /\ UNCHANGED <<call_frame, running_queries, calls>>

\* MemoryCache.post_get lines 52-59, with the lock held: the access is
\* recorded and the head of the list is the victim unless it is in flight
PostLocked(p) ==
    /\ pc[p] = "post_locked"
    /\ LET f == fn[p]
           acc == Touch(Accesses(p)[f], get_args_key(args[p]))
           to_delete == Head(acc)
       IN  IF Len(acc) > CacheSize /\ ~InList(Running(p), <<f, to_delete>>)
           THEN /\ Goto(p, "post_evict")
                /\ UNCHANGED <<accesses, locks, fn, args, result, entry,
                               returned, recency>>
           ELSE /\ accesses' = [accesses EXCEPT ![ctx[p]][f] = acc]
                /\ locks' = [locks EXCEPT ![ctx[p]][f] = {}]
                /\ Leave(p, Value(args[p], result[p]))
    /\ UNCHANGED <<call_frame, cache, evictions, running_queries, calls>>

\* MemoryCache.post_get lines 60-64: the victim leaves the list and the
\* sub-store; when the sub-store lacks it, del raises with the lock held
PostEvict(p) ==
    /\ pc[p] = "post_evict"
    /\ LET f == fn[p]
           acc == Touch(Accesses(p)[f], get_args_key(args[p]))
           to_delete == Head(acc)
       IN  IF to_delete \in DOMAIN Cache(p)[f]
           THEN /\ accesses' = [accesses EXCEPT ![ctx[p]][f] = Tail(acc)]
                /\ cache' = [cache EXCEPT ![ctx[p]][f] = Del(@, to_delete)]
                /\ evictions' = evictions + 1
                /\ locks' = [locks EXCEPT ![ctx[p]][f] = {}]
                /\ Leave(p, Value(args[p], result[p]))
           ELSE /\ Leave(p, Raised(args[p], "KeyError"))
                /\ UNCHANGED <<accesses, cache, locks, evictions>>
    /\ UNCHANGED <<call_frame, running_queries, calls>>

\* ------------------------------------------------- activate / deactivate
admin_frame == <<registry, probe, disk, fn, args, result, entry, flush,
                 returned, recency, evictions, gets, calls, bypass>>

\* lines 107-113: cls._is_active = True
activate(p) ==
    /\ pc[p] = "idle"
    /\ ~is_active[p]
    /\ is_active' = [is_active EXCEPT ![p] = TRUE]
    /\ UNCHANGED <<admin_frame, is_init, multiprocessing, at_exit_set, ctx,
                   cache, running_queries, accesses, locks, pc>>

\* deactivate reaching the flag of every process
deactivate_All(p) ==
    /\ pc[p] = "idle"
    /\ is_active[p]
    /\ is_active' = [q \in Procs |-> FALSE]
    /\ UNCHANGED <<admin_frame, is_init, multiprocessing, at_exit_set, ctx,
                   cache, running_queries, accesses, locks, pc>>

\* lines 115-122: cls._is_active = False
deactivate(p) ==
    /\ pc[p] = "idle"
    /\ is_active[p]
    /\ is_active' = [is_active EXCEPT ![p] = FALSE]
    /\ UNCHANGED <<admin_frame, is_init, multiprocessing, at_exit_set, ctx,
                   cache, running_queries, accesses, locks, pc>>

\* init() called by the user (Cache.init lines 70-73, FileCache.init 55-69)
explicit_init(p) ==
    /\ pc[p] = "idle"
    /\ init(p, TRUE)
    /\ is_init' = [is_init EXCEPT ![p] = TRUE]
    /\ UNCHANGED <<variant, cached_functions, wrapped, probe, disk, is_active,
                   multiprocessing, ctx, running_queries, locks, pc, fn, args,
                   result, entry, flush, returned, recency, evictions, gets,
                   calls,
                   bypass>>

\* ------------------------------------------------ enable_multiprocessing
\* lines 186-199, with post_spawn (lines 231-246) run by every worker of the
\* pool: the objects of the main process become the shared ones
enable_multiprocessing ==
    /\ pc[Main] = "idle"
    /\ ~multiprocessing[Main]
    /\ \A w \in Workers : pc[w] = "off"
    /\ init(Main, ~is_init[Main])
    /\ is_init' = [p \in Procs |-> TRUE]
    /\ multiprocessing' = [p \in Procs |-> TRUE]
    /\ locks' = [locks EXCEPT ![Main] = [f \in DOMAIN cached_functions |-> {}]]
    /\ is_active' = [p \in Procs |-> is_active[Main]]
    /\ ctx' = [p \in Procs |-> Main]
    /\ pc' = [p \in Procs |-> "idle"]
    /\ UNCHANGED <<variant, cached_functions, wrapped, probe, disk,
                   running_queries, fn, args, result, entry, flush, returned,
                   recency, evictions, gets, calls, bypass>>

\* ------------------------------------------------------------- decoration
\* cache_function without the test of line 90
cache_function_Overwrites(func) == [kind |-> "key", val |-> func.qualname]

\* Cache.cache_function (lines 90-93): the key, or None when it is taken
cache_function(func) ==
    IF func.qualname \notin DOMAIN cached_functions
    THEN [kind |-> "key", val |-> func.qualname] ELSE None

\* Cache.__call__ (lines 44-54) with FileCache.post_wrap (line 44): the
\* decorator @variant(cache_file) is applied to func
decorate(func, cache_file) ==
    LET func_key == cache_function(func)
    IN  /\ Len(wrapped) < MaxDecorations
        /\ \A p \in Procs : pc[p] \in {"idle", "off"}
        /\ IF func_key = None
           THEN /\ wrapped' = Append(wrapped, [kind |-> "original", func |-> func])
                /\ UNCHANGED <<cached_functions, cache_files>>
           ELSE /\ cached_functions' = Put(cached_functions, func.qualname, func)
                /\ cache_files' = IF variant = "file"
                                  THEN Put(cache_files, func.qualname, cache_file)
                                  ELSE cache_files
                /\ wrapped' = Append(wrapped, [kind |-> "wrapper", func |-> func])
        /\ UNCHANGED <<variant, probe, disk, flags, cache, running_queries,
                       accesses, locks, pc, fn, args, result, entry, flush,
                       returned, recency, evictions, gets,
                   calls, bypass>>

\* ------------------------------------------------- FileCache.save_files
\* A new process starts: the module is imported, nothing is initialized
start(p) ==
    /\ pc[p] = "off"
    /\ Goto(p, "idle")
    /\ started_after' = [started_after EXCEPT ![p] =
                            {q \in Procs : pc[q] = "exited"}]
    /\ UNCHANGED <<registry, key_in, key_out, waited, lost, disk, flags, cache,
                   running_queries, accesses, locks, fn, args, result, entry,
                   flush, returned, recency, evictions, gets,
                   calls, bypass>>

flush_frame == <<registry, probe, flags, running_queries, accesses, fn, args,
                 result, returned, recency, evictions, gets, calls, bypass>>

\* The process ends: the handler set by set_at_exit (lines 111-113) runs
\* save_files, whose loop (line 120) goes over the keys of _cache
exit(p) ==
    /\ pc[p] = "idle"
    /\ IF at_exit_set[p]
       THEN /\ todo' = [todo EXCEPT ![p] = DOMAIN Cache(p)]
            /\ Goto(p, IF DOMAIN Cache(p) = {} THEN "exited" ELSE "flush_read")
       ELSE /\ Goto(p, "exited")
            /\ UNCHANGED todo
    /\ UNCHANGED <<flush_frame, disk, cache, locks, entry, changed>>

\* the function save_files is at
Current(p) == CHOOSE f \in todo[p] : TRUE

\* lines 122-124: the file is opened and loaded; a missing file (lines
\* 136-137) leaves nothing to merge; a file that does not unpickle makes
\* pickle.load raise an error save_files does not catch, and the handler ends
FlushRead(p) ==
    /\ pc[p] = "flush_read"
    /\ LET file == disk[cache_files[Current(p)]]
       IN  IF file.kind = "empty"
           THEN /\ Goto(p, "failed")
                /\ UNCHANGED changed
           ELSE /\ changed' = [changed EXCEPT ![p] =
                        IF file.kind = "dict" THEN pickle_load(file) ELSE EmptyDict]
                /\ Goto(p, "flush_merge")
    /\ UNCHANGED <<flush_frame, disk, cache, locks, entry, todo>>

\* the keys of changed that line 126 finds missing in the sub-store
Missing(p) == (DOMAIN changed[p]) \ (DOMAIN Cache(p)[Current(p)])

\* Merged with the keys of the file dropped
Merged_Dropped(d, file) == d

\* the sub-store with the keys of changed it lacks (lines 125-126, 134)
Merged(d, file) ==
    [k \in (DOMAIN d) \cup (DOMAIN file) |-> IF k \in DOMAIN d THEN d[k] ELSE file[k]]

\* lines 125-134: the keys of the file missing in the sub-store are merged;
\* in shared mode one key at a time, the lock taken first (lines 128-129)
FlushMerge(p) ==
    /\ pc[p] = "flush_merge"
    /\ IF multiprocessing[p] /\ Missing(p) # {}
       THEN \E key \in Missing(p) :
                /\ Locks(p)[Current(p)] = {}
                /\ locks' = [locks EXCEPT ![ctx[p]][Current(p)] = {p}]
                /\ entry' = [entry EXCEPT ![p] =
                        Put(Cache(p)[Current(p)], key, changed[p][key])]
                /\ Goto(p, "flush_put")
                /\ UNCHANGED cache
       ELSE /\ cache' = [cache EXCEPT ![ctx[p]][Current(p)] =
                    Merged(@, changed[p])]
            /\ Goto(p, "flush_write")
            /\ UNCHANGED <<locks, entry>>
    /\ UNCHANGED <<flush_frame, disk, changed, todo>>

\* lines 131-132: the merged entry is written back and the lock released
FlushPut(p) ==
    /\ pc[p] = "flush_put"
    /\ cache' = [cache EXCEPT ![ctx[p]][Current(p)] = entry[p]]
    /\ locks' = [locks EXCEPT ![ctx[p]][Current(p)] = {}]
    /\ entry' = [entry EXCEPT ![p] = EmptyDict]
    /\ Goto(p, "flush_merge")
    /\ UNCHANGED <<flush_frame, disk, changed, todo>>

\* lines 138-140 as one step, for a process that writes its file while no
\* other process opens it
FlushWrite(p) ==
    /\ pc[p] = "flush_write"
    /\ disk' = [disk EXCEPT ![cache_files[Current(p)]] =
                    pickle_dump(Cache(p)[Current(p)])]
    /\ todo' = [todo EXCEPT ![p] = @ \ {Current(p)}]
    /\ changed' = [changed EXCEPT ![p] = EmptyDict]
    /\ Goto(p, IF todo[p] = {Current(p)} THEN "exited" ELSE "flush_read")
    /\ UNCHANGED <<flush_frame, cache, locks, entry>>

\* line 138: open(path, "wb") empties the file
FlushOpen(p) ==
    /\ pc[p] = "flush_write"
    /\ disk' = [disk EXCEPT ![cache_files[Current(p)]] = Truncated]
    /\ Goto(p, "flush_dump")
    /\ UNCHANGED <<flush_frame, cache, locks, entry, changed, todo>>

\* FlushDump writing what was read from the file instead of the sub-store
FlushDump_Changed(p) ==
    /\ pc[p] = "flush_dump"
    /\ disk' = [disk EXCEPT ![cache_files[Current(p)]] = pickle_dump(changed[p])]
    /\ todo' = [todo EXCEPT ![p] = @ \ {Current(p)}]
    /\ changed' = [changed EXCEPT ![p] = EmptyDict]
    /\ Goto(p, IF todo[p] = {Current(p)} THEN "exited" ELSE "flush_read")
    /\ UNCHANGED <<flush_frame, cache, locks, entry>>

\* lines 139-140: the sub-store is dumped into the file and the file closed
FlushDump(p) ==
    /\ pc[p] = "flush_dump"
    /\ disk' = [disk EXCEPT ![cache_files[Current(p)]] =
                    pickle_dump(Cache(p)[Current(p)])]
    /\ todo' = [todo EXCEPT ![p] = @ \ {Current(p)}]
    /\ changed' = [changed EXCEPT ![p] = EmptyDict]
    /\ Goto(p, IF todo[p] = {Current(p)} THEN "exited" ELSE "flush_read")
    /\ UNCHANGED <<flush_frame, cache, locks, entry>>

\* save_files while no other process opens the file between lines 138 and 140
Flush(p) ==
    \/ FlushRead(p)
    \/ FlushMerge(p)
    \/ FlushWrite(p)

\* the exit of a process while no other process is writing its files
SeqExit(p) ==
    /\ \A q \in Procs : pc[q] \notin {"flush_read", "flush_merge", "flush_put",
                                      "flush_write", "flush_dump"}
    /\ exit(p)

\* ------------------------------------------------------ the specifications
\* The callables of test.py: two of them would share a __qualname__
Callables == {TestFn, Callable("test_memory", 3), Callable("test_file", 3)}
ExplicitFile == [kind |-> "path", val |-> <<"", "cache_file", ".pkl">>]
Paths == {get_default_cache_file_path(c.qualname) : c \in Callables}
            \cup {ExplicitFile}

\* the dicts an earlier run of test_memory may have left in its file
EarlierRuns ==
    {[a \in S |-> a.val[1].val ^ TestFn.exp] : S \in {{}} \cup {{a} : a \in Args}}

InitWith(v, files) ==
    /\ variant = v
    /\ disk = files
    /\ is_active = [p \in Procs |-> TRUE]
    /\ is_init = [p \in Procs |-> FALSE]
    /\ multiprocessing = [p \in Procs |-> FALSE]
    /\ at_exit_set = [p \in Procs |-> FALSE]
    /\ ctx = [p \in Procs |-> p]
    /\ cache = [p \in Procs |-> EmptyDict]
    /\ running_queries = [p \in Procs |-> <<>>]
    /\ accesses = [p \in Procs |-> EmptyDict]
    /\ locks = [p \in Procs |-> EmptyDict]
    /\ fn = [p \in Procs |-> ""]
    /\ args = [p \in Procs |-> NoArgs]
    /\ result = [p \in Procs |-> 0]
    /\ entry = [p \in Procs |-> EmptyDict]
    /\ changed = [p \in Procs |-> EmptyDict]
    /\ todo = [p \in Procs |-> {}]
    /\ returned = NoCall
    /\ gets = 0
    /\ calls = [a \in AllArgs |-> 0]
    /\ bypass = [a \in AllArgs |-> 0]
    /\ recency = <<>>
    /\ evictions = 0
    /\ started_after = [p \in Procs |-> {}]
    /\ key_in = None
    /\ key_out = None
    /\ waited = [p \in Procs |-> FALSE]
    /\ lost = {}

\* test_memory is decorated when the module is imported
Decorated(v) ==
    /\ cached_functions = [f \in {TestFn.qualname} |-> TestFn]
    /\ cache_files = IF v = "file" THEN [f \in {TestFn.qualname} |-> None]
                     ELSE EmptyDict
    /\ wrapped = <<[kind |-> "wrapper", func |-> TestFn]>>

NoFiles == [path \in Paths |-> Absent]

\* The main process is up, the pool is not yet given to the cache
Init ==
    /\ \E v \in {"base", "memory", "file"} : InitWith(v, NoFiles) /\ Decorated(v)
    /\ pc = [p \in Procs |-> IF p = Main THEN "idle" ELSE "off"]

Steps(p) ==
    \/ Wait(p)
    \/ Check(p)
    \/ Hit(p)
    \/ Mark(p)
    \/ Compute(p)
    \/ Acquire(p)
    \/ Store(p)
    \/ Unmark(p)
    \/ PostGet(p)
    \/ PostLocked(p)
    \/ PostEvict(p)

\* the steps of a call in a process that shares nothing
LocalSteps(p) ==
    \/ Wait(p)
    \/ Check(p)
    \/ Hit(p)
    \/ Mark(p)
    \/ Compute(p)
    \/ Store(p)
    \/ Unmark(p)
    \/ PostGet(p)

\* The engine with calls that overlap in time
Next ==
    \/ \E p \in Procs, f \in DOMAIN cached_functions, a \in Args : Call(p, f, a)
    \/ \E p \in Procs : Steps(p)
    \/ \E p \in Procs : Spin(p)
    \/ \E p \in Procs : activate(p)
    \/ \E p \in Procs : deactivate(p)
    \/ enable_multiprocessing

Spec == Init /\ [][Next]_vars

\* The engine, active, with calls made one at a time
NextSeq ==
    \/ \E p \in Procs, f \in DOMAIN cached_functions, a \in SeqArgs :
            SeqCall(p, f, a)
    \/ \E p \in Procs : Steps(p)
    \/ enable_multiprocessing

SpecSeq == Init /\ [][NextSeq]_vars

\* The durable variant in sibling processes that share only the files;
\* the processes write their files one after the other
InitFile ==
    /\ \E d \in EarlierRuns, there \in BOOLEAN :
          InitWith("file", [path \in Paths |->
              IF there /\ path = get_default_cache_file_path(TestFn.qualname)
              THEN pickle_dump(d) ELSE Absent])
    /\ Decorated("file")
    /\ pc = [p \in Procs |-> "off"]

\* a call made while no sibling is inside a call (siblings share no memory)
SiblingCall(p, f, a) ==
    /\ \A q \in Procs : pc[q] \in {"idle", "off", "exited", "flush_read",
                                    "flush_merge", "flush_write"}
    /\ Call(p, f, a)

NextFile ==
    \/ \E p \in Procs : start(p)
    \/ \E p \in Procs, f \in DOMAIN cached_functions, a \in Args :
            SiblingCall(p, f, a)
    \/ \E p \in Procs : LocalSteps(p)
    \/ \E p \in Procs : SeqExit(p)
    \/ \E p \in Procs : Flush(p)

SpecFile == InitFile /\ [][NextFile]_vars

\* The durable variant in sibling processes that exit at any time: the steps
\* of their save_files interleave; a process loads its files while no
\* sibling is inside a call or inside save_files
InitFlush ==
    /\ InitWith("file", NoFiles)
    /\ Decorated("file")
    /\ pc = [p \in Procs |-> "off"]

EarlyCall(p, f, a) ==
    /\ \A q \in Procs : pc[q] \in {"idle", "off", "exited", "failed"}
    /\ Call(p, f, a)

NextFlush ==
    \/ \E p \in Procs : start(p)
    \/ \E p \in Procs, f \in DOMAIN cached_functions, a \in Args :
            EarlyCall(p, f, a)
    \/ \E p \in Procs : LocalSteps(p)
    \/ \E p \in Procs : exit(p)
    \/ \E p \in Procs : FlushRead(p)
    \/ \E p \in Procs : FlushMerge(p)
    \/ \E p \in Procs : FlushOpen(p)
    \/ \E p \in Procs : FlushDump(p)

SpecFlush == InitFlush /\ [][NextFlush]_vars

\* Decoration at any time of a run of the main process
InitReg ==
    /\ \E v \in {"base", "memory", "file"} : InitWith(v, NoFiles)
    /\ cached_functions = EmptyDict
    /\ cache_files = EmptyDict
    /\ wrapped = <<>>
    /\ pc = [p \in Procs |-> IF p = Main THEN "idle" ELSE "off"]

NextReg ==
    \/ \E c \in Callables, file \in {None, ExplicitFile} : decorate(c, file)
    \/ \E f \in DOMAIN cached_functions, a \in Args : Call(Main, f, a)
    \/ LocalSteps(Main)

SpecReg == InitReg /\ [][NextReg]_vars

\* The engine shared by the processes of a pool from the first call on
PoolCall(p, f, a) ==
    /\ gets < MaxPoolGets
    /\ multiprocessing[p]
    /\ wrapper(p, f, a)

\* lines 138-140 run by a process of another run of the program, which
\* shares the file and nothing else: the file appears
OtherRun ==
    /\ variant = "file"
    /\ is_init[Main]
    /\ \E f \in DOMAIN cached_functions : \E d \in EarlierRuns :
            /\ disk[cache_files[f]].kind = "absent"
            /\ disk' = [disk EXCEPT ![cache_files[f]] = pickle_dump(d)]
    /\ UNCHANGED <<flush_frame, cache, locks, pc, entry, changed, todo>>

\* the main process ends while the pool is up
PoolExit ==
    /\ multiprocessing[Main]
    /\ exit(Main)

NextPool ==
    \/ enable_multiprocessing
    \/ \E p \in Procs, f \in DOMAIN cached_functions, a \in Args : PoolCall(p, f, a)
    \/ \E p \in Procs : Steps(p)
    \/ \E p \in Procs : Spin(p)
    \/ OtherRun
    \/ PoolExit
    \/ Flush(Main)
    \/ FlushPut(Main)

SpecPool == Init /\ [][NextPool]_vars

\* The same under fair scheduling: a process that can take a step takes it,
\* and a process that finds a lock free again and again gets it
PoolFairness ==
    /\ \A p \in Procs :
        /\ WF_vars(Steps(p))
        /\ SF_vars(Acquire(p))
        /\ SF_vars(PostGet(p))
    /\ WF_vars(FlushPut(Main))

SpecPoolFair == Init /\ [][NextPool]_vars /\ PoolFairness

\* The engine, active, with computing parties that may fail
NextFail ==
    \/ enable_multiprocessing
    \/ \E p \in Procs, f \in DOMAIN cached_functions, a \in Args : Call(p, f, a)
    \/ \E p \in Procs : Steps(p)
    \/ \E p \in Procs : Spin(p)
    \/ \E p \in Procs : Raise(p)
    \/ \E p \in Procs : Die(p)

SpecFail == Init /\ [][NextFail]_vars

\* The engine with calls made one at a time and init() called by the user
\* at any time between them
NextInit ==
    \/ \E p \in Procs, f \in DOMAIN cached_functions, a \in Args :
            SeqCall(p, f, a)
    \/ \E p \in Procs : Steps(p)
    \/ \E p \in Procs : activate(p)
    \/ \E p \in Procs : deactivate(p)
    \/ \E p \in Procs : explicit_init(p)
    \/ enable_multiprocessing

SpecInit == Init /\ [][NextInit]_vars

\* get_args_key on its own
Atoms == {PyInt(n) : n \in 0 .. MaxInt} \cup {PyStr(<<>>), PyStr(<<"a">>)}
SeqsOf(S) == UNION {[1 .. n -> S] : n \in 0 .. MaxLen}
Flat == {PyList(xs) : xs \in SeqsOf(Atoms)} \cup {PyTuple(xs) : xs \in SeqsOf(Atoms)}
Nested ==
    LET inner == {<<v>> : v \in Flat} \cup {<<a, v>> : a \in Atoms, v \in Flat}
    IN  {PyList(xs) : xs \in inner} \cup {PyTuple(xs) : xs \in inner}
Values == Atoms \cup Flat \cup Nested

InitKey ==
    /\ InitWith("base", NoFiles) /\ Decorated("base")
    /\ pc = [p \in Procs |-> IF p = Main THEN "idle" ELSE "off"]

\* a value is handed to get_args_key
KeyOf ==
    /\ key_in = None
    /\ \E v \in Values : key_in' = v
    /\ key_out' = get_args_key(key_in')
    /\ UNCHANGED <<registry, started_after, waited, lost, disk, flags, cache,
                   running_queries, accesses, locks, pc, fn, args, result,
                   entry, flush, returned, recency, evictions, gets,
                   calls, bypass>>

\* the key is handed to get_args_key again
KeyOfKey ==
    /\ key_out \notin {None, RecursionError}
    /\ key_in' = key_out
    /\ key_out' = get_args_key(key_out)
    /\ UNCHANGED <<registry, started_after, waited, lost, disk, flags, cache,
                   running_queries, accesses, locks, pc, fn, args, result,
                   entry, flush, returned, recency, evictions, gets,
                   calls, bypass>>

NextKey == KeyOf \/ KeyOfKey

SpecKey == InitKey /\ [][NextKey]_vars

\* ---------------------------------------------------------------- claims
Idle == \A p \in Procs : pc[p] \in {"idle", "off", "exited"}
Executing(p, f, k) ==
    pc[p] = "exec" /\ fn[p] = f /\ get_args_key(args[p]) = k
Total(count) ==
    LET RECURSIVE Sum(_)
        Sum(S) == IF S = {} THEN 0
                  ELSE LET a == CHOOSE x \in S : TRUE
                       IN  count[a] + Sum(S \ {a})
    IN  Sum(DOMAIN count)
ReturnedRight ==
    returned.kind = "value" =>
        returned.val = original_function(TestFn.qualname, returned.args)

\* C1: in shared mode with the engine active and no eviction, whatever the
\* interleaving of the steps of the callers of one (function, args) pair, the
\* function body runs once for the pair, never in two processes at a time,
\* and every caller gets the function's value.
C1_ComputedOnce ==
    variant # "memory" =>
        /\ \A a \in AllArgs : calls[a] <= 1
        /\ \A p, q \in Procs : \A f \in DOMAIN cached_functions, a \in AllArgs :
              Executing(p, f, get_args_key(a)) /\ Executing(q, f, get_args_key(a))
                  => p = q
        /\ ReturnedRight

\* C2: with calls that do not overlap and no eviction, every call returns
\* the function's value for its arguments and the function is invoked at
\* most once for each cache key.
C2_OncePerKey ==
    evictions = 0 =>
        /\ \A a \in AllArgs : calls[a] <= 1
        /\ returned.kind \in {"nothing", "value"}
        /\ ReturnedRight

\* a worker was handed, from the shared store, a result the function had
\* been invoked for once
C2_Witness ==
    /\ evictions = 0
    /\ Idle
    /\ gets = MaxSeqGets
    /\ Total(calls) < gets
    /\ returned.kind = "value"
    /\ returned.by # Main
    /\ calls[returned.args] = 1

\* C3: in process-local mode the sub-store of a function of the
\* bounded-memory variant holds at most cache_size entries once the calls
\* made one at a time have completed.
C3_LocalBound ==
    (variant = "memory" /\ ~multiprocessing[Main] /\ Idle) =>
        \A f \in DOMAIN cache[Main] : Cardinality(DOMAIN cache[Main][f]) <= CacheSize

\* C4: whenever the bounded-memory variant deletes an entry, the deleted key
\* is the one whose last completed get is the oldest among the keys of the
\* sub-store that are not in flight.
Rank(order, x) == CHOOSE i \in 1 .. Len(order) : order[i] = x
C4_EvictsLeastRecent ==
    [][\A f \in DOMAIN cache[Main] : \A k \in DOMAIN cache[Main][f] :
          (variant = "memory" /\ f \in DOMAIN cache'[Main]
                /\ k \notin DOMAIN cache'[Main][f])
          => \A j \in (DOMAIN cache[Main][f]) \ {k} :
                (~InList(running_queries[Main], <<f, j>>)
                    /\ InList(recency', <<f, j>>))
                => /\ InList(recency', <<f, k>>)
                   /\ Rank(recency', <<f, k>>) < Rank(recency', <<f, j>>)]_vars

\* the file of function f holds key k with value v
OnDisk(f, k, v) ==
    LET file == disk[cache_files[f]]
    IN  file.kind = "dict" /\ k \in DOMAIN file.val /\ file.val[k] = v

\* C5: what a process had in a sub-store when it wrote its files at exit is
\* in the sub-store of every initialized process that started after that
\* exit, with the same result, and such a process never invokes the function
\* for a key the exited process had.
C5_RoundTrip ==
    /\ [](\A p \in Procs : \A q \in started_after[p] :
            is_init[p] => \A f \in DOMAIN cache[q] : \A k \in DOMAIN cache[q][f] :
                /\ f \in DOMAIN cache[p]
                /\ k \in DOMAIN cache[p][f]
                /\ cache[p][f][k] = cache[q][f][k])
    /\ [][\A p \in Procs :
            (pc[p] = "mark" /\ pc'[p] = "exec") =>
                \A q \in started_after[p] :
                    fn[p] \in DOMAIN cache[q] =>
                        get_args_key(args[p]) \notin DOMAIN cache[q][fn[p]]]_vars

\* a process started after another had exited and was handed the result the
\* exited one had computed
C5_Witness ==
    \E p \in Procs : \E q \in started_after[p] :
        /\ returned.by = p
        /\ returned.kind = "value"
        /\ calls[returned.args] = 1
        /\ Total(calls) = 1
        /\ gets > 1
        /\ TestFn.qualname \in DOMAIN cache[q]
        /\ get_args_key(returned.args) \in DOMAIN cache[q][TestFn.qualname]

\* C6: when sibling processes write their files one after the other, every
\* entry of a process that has exited is in the file, and no write of a file
\* removes a key from it.
C6_MergeOnFlush ==
    /\ [](\A q \in Procs : pc[q] = "exited" =>
            \A f \in DOMAIN cache[q] : \A k \in DOMAIN cache[q][f] :
                OnDisk(f, k, cache[q][f][k]))
    /\ [][\A path \in Paths :
            disk[path].kind = "dict" =>
                /\ disk'[path].kind = "dict"
                /\ DOMAIN disk[path].val \subseteq DOMAIN disk'[path].val]_vars

\* two siblings that ran side by side have exited; the one that wrote first
\* never had the key of the other, and the file has both keys
C6_Witness ==
    \E p, q \in Procs : \E a, b \in Args :
        /\ p # q /\ a # b
        /\ pc[p] = "exited" /\ pc[q] = "exited"
        /\ started_after[p] = {} /\ started_after[q] = {}
        /\ calls[a] = 1 /\ calls[b] = 1
        /\ TestFn.qualname \in DOMAIN cache[p] \cap DOMAIN cache[q]
        /\ get_args_key(a) \in DOMAIN cache[p][TestFn.qualname]
        /\ get_args_key(b) \notin DOMAIN cache[p][TestFn.qualname]
        /\ get_args_key(b) \in DOMAIN cache[q][TestFn.qualname]
        /\ OnDisk(TestFn.qualname, get_args_key(a), a.val[1].val ^ TestFn.exp)
        /\ OnDisk(TestFn.qualname, get_args_key(b), b.val[1].val ^ TestFn.exp)

\* C7: a call made by a deactivated process invokes the function once and
\* leaves the store, the markers, the access order and the initialized flag
\* alone; a deactivated process never enters the cached path.
C7_DeactivatedBypass ==
    [][/\ (gets' # gets /\ pc' = pc) =>
            /\ ~is_active[returned'.by]
            /\ Total(bypass') = Total(bypass) + 1
            /\ bypass'[returned'.args] = bypass[returned'.args] + 1
            /\ calls' = calls
            /\ returned'.kind = "value"
            /\ returned'.val = original_function(TestFn.qualname, returned'.args)
            /\ UNCHANGED <<cache, running_queries, accesses, is_init, locks>>
       /\ \A p \in Procs : (gets' # gets /\ ~is_active[p]) => pc'[p] = pc[p]
      ]_vars

\* the function was invoked twice for two calls with the same arguments
C7_Witness ==
    \E a \in Args : bypass[a] = 2 /\ gets = 2

\* C8: a decoration of a callable whose key is taken returns the callable
\* itself and changes neither the registry nor the recorded file paths; a
\* decoration of a callable whose key is free registers it under that key.
Last(s) == s[Len(s)]
C8_RegistrationOnce ==
    [][Len(wrapped') > Len(wrapped) =>
          LET func == Last(wrapped').func
          IN  IF func.qualname \in DOMAIN cached_functions
              THEN /\ Last(wrapped').kind = "original"
                   /\ UNCHANGED <<cached_functions, cache_files>>
              ELSE /\ Last(wrapped').kind = "wrapper"
                   /\ cached_functions'[func.qualname] = func
                   /\ \A f \in DOMAIN cached_functions :
                        /\ cached_functions'[f] = cached_functions[f]
                        /\ variant = "file" => cache_files'[f] = cache_files[f]
      ]_vars

\* a second callable with a taken key was handed back unwrapped
C8_Witness ==
    \E i \in 1 .. Len(wrapped) :
        /\ wrapped[i].kind = "original"
        /\ cached_functions[wrapped[i].func.qualname] # wrapped[i].func

\* C9: get_args_key gives the value with every sequence replaced by the tuple
\* of the keys of its elements and every scalar (int, str) unchanged.
RECURSIVE Canonical(_)
Canonical(v) ==
    IF v.kind \in {"list", "tuple"}
    THEN PyTuple([i \in 1 .. Len(v.val) |-> Canonical(v.val[i])])
    ELSE v
C9_KeyDerivation ==
    key_in # None => key_out = Canonical(key_in)

\* C10: once the pool shares the engine, a step that changes an activation
\* flag changes the flag of one process and nothing of the shared store or
\* the markers; a process enters the cached path only when its own flag is
\* set and calls the function directly only when its own flag is cleared.
C10_FlagIsLocal ==
    [][/\ (multiprocessing[Main] /\ is_active' # is_active) =>
            /\ Cardinality({p \in Procs : is_active'[p] # is_active[p]}) = 1
            /\ UNCHANGED <<cache, running_queries, accesses, locks, pc>>
       /\ \A p \in Procs :
            (multiprocessing[p] /\ pc[p] = "idle" /\ pc'[p] = "wait")
                => is_active[p]
       /\ (multiprocessing[Main] /\ bypass' # bypass) => ~is_active[returned'.by]
      ]_vars

\* a worker is deactivated while the main process, still active, is inside
\* a call
C10_Witness ==
    \E p \in Workers :
        /\ multiprocessing[p]
        /\ ~is_active[p]
        /\ is_active[Main]
        /\ pc[Main] \notin {"idle", "off"}

\* C11: in shared mode every step that changes a sub-store is taken by the
\* process that holds the lock of the function, a lock has one holder at
\* most, a lock is held only by a process inside the section that releases
\* it, and a result stored is in the sub-store when nothing was evicted.
C11_LockDiscipline ==
    /\ [][\A f \in DOMAIN cache[Main] :
            (multiprocessing[Main] /\ f \in DOMAIN cache'[Main]
                /\ cache'[Main][f] # cache[Main][f])
            => \E p \in Procs : locks[Main][f] = {p} /\ pc'[p] # pc[p]]_vars
    /\ [](\A f \in DOMAIN locks[Main] :
            /\ Cardinality(locks[Main][f]) <= 1
            /\ \A p \in locks[Main][f] :
                  \/ fn[p] = f /\ pc[p] \in {"store", "post_locked", "post_evict"}
                  \/ pc[p] = "flush_put" /\ Current(p) = f)
    /\ []((multiprocessing[Main] /\ evictions = 0) =>
            \A p \in Procs : pc[p] \in {"unmark", "post"} =>
                get_args_key(args[p]) \in DOMAIN cache[Main][fn[p]])

\* the marker of the call process p is in
Marked(p) == InList(Running(p), <<fn[p], get_args_key(args[p])>>)
Stored(p) ==
    /\ fn[p] \in DOMAIN Cache(p)
    /\ get_args_key(args[p]) \in DOMAIN Cache(p)[fn[p]]

\* C12: the marker of a pair is in the list from before the function starts
\* until after the result is written; in a cache without eviction a caller
\* that found the marker present leaves the spin-wait with the entry in the
\* store and is handed the stored result without invoking the function.
C12_MarkerBrackets ==
    /\ [](\A p \in Procs :
            pc[p] \in {"exec", "lock", "store", "unmark"} => Marked(p))
    /\ [][\A o \in Procs :
            Len(running_queries'[o]) < Len(running_queries[o]) =>
                \E p \in Procs :
                    /\ ctx[p] = o /\ pc[p] = "unmark" /\ pc'[p] = "post"
                    /\ evictions = 0 => Stored(p)]_vars
    /\ [][\A p \in Procs :
            (variant # "memory" /\ waited[p] /\ pc[p] \in {"wait", "check"}
                /\ pc'[p] # pc[p])
            => /\ Stored(p)
               /\ pc'[p] \in {"check", "hit"}
               /\ calls' = calls]_vars
    /\ [](variant # "memory" => ReturnedRight)

\* a caller that had found the marker present was handed the result the
\* other process computed
C12_Witness ==
    /\ variant # "memory"
    /\ returned.kind = "value"
    /\ waited[returned.by]
    /\ pc[returned.by] = "idle"
    /\ gets = 2
    /\ calls[returned.args] = 1
    /\ Total(calls) = 1

\* C15: a step of the bounded-memory variant that deletes an entry deletes
\* one whose key is not in flight; when the head of the access order is in
\* flight the call deletes nothing and the head stays in the order.
C15_InFlightProtected ==
    [][/\ \A f \in DOMAIN cache[Main] : \A k \in DOMAIN cache[Main][f] :
            (variant = "memory" /\ f \in DOMAIN cache'[Main]
                /\ k \notin DOMAIN cache'[Main][f])
            => ~InList(running_queries[Main], <<f, k>>)
       /\ \A p \in Procs :
            pc[p] = "post_locked" =>
                LET acc == Touch(Accesses(p)[fn[p]], get_args_key(args[p]))
                IN  (Len(acc) > CacheSize
                        /\ InList(Running(p), <<fn[p], Head(acc)>>))
                    => /\ cache' = cache
                       /\ InList(accesses'[ctx[p]][fn[p]], Head(acc))]_vars

\* C16: in shared mode, when no call is in progress and no key is in flight,
\* the access order and the sub-store of a function of the bounded-memory
\* variant hold at most cache_size entries.
C16_BoundAtRest ==
    (variant = "memory" /\ multiprocessing[Main] /\ Idle
        /\ running_queries[Main] = <<>>) =>
        \A f \in DOMAIN cache[Main] :
            /\ Cardinality(DOMAIN cache[Main][f]) <= CacheSize
            /\ Len(accesses[Main][f]) <= CacheSize

\* C13: under fair scheduling every call made in shared mode comes back to
\* its caller: its spin-wait ends and it gets the locks it asks for.
C13_EveryGetReturns ==
    \A p \in Procs :
        (multiprocessing[p] /\ pc[p] = "wait") ~> (pc[p] = "idle")

\* the pair of the call of p is one whose computing party failed
Lost(p) == <<ctx[p], fn[p], get_args_key(args[p])>> \in lost

\* C14, amended: once the computing party of a pair has failed between the
\* append and the removal of its marker, the marker stays in the list and no
\* call for the pair made with the engine active leaves the spin-wait.
C14_MarkerStaysForever ==
    /\ [](\A pair \in lost :
            InList(running_queries[pair[1]], <<pair[2], pair[3]>>))
    /\ [][\A p \in Procs :
            (pc[p] = "wait" /\ Lost(p)) => pc'[p] = "wait"]_vars

\* C14 as stated: the marker stays, no call for the pair leaves the
\* spin-wait, and no result is in the store for the pair.
C14_NothingStored ==
    /\ C14_MarkerStaysForever
    /\ [](\A pair \in lost :
            pair[2] \in DOMAIN cache[pair[1]] =>
                pair[3] \notin DOMAIN cache[pair[1]][pair[2]])

\* a call for a pair whose computing party failed sleeps in the spin-wait
C14_Witness ==
    \E p \in Procs :
        /\ pc[p] = "wait"
        /\ waited[p]
        /\ Lost(p)
        /\ ~Stored(p)

\* C17: save_files overwrites the file with the sub-store as it was merged
\* when the file was read, and does not read the file again before writing;
\* with the steps of two siblings interleaved, a key one of them wrote is
\* then absent from the final file.
C17_WriteAfterStaleRead ==
    /\ [](\A p \in Procs :
            pc[p] \in {"flush_write", "flush_dump"} =>
                \A k \in DOMAIN changed[p] :
                    /\ k \in DOMAIN cache[p][Current(p)]
                    /\ cache[p][Current(p)][k] = changed[p][k])
    /\ [][\A p \in Procs :
            (pc[p] = "flush_dump" /\ pc'[p] # "flush_dump") =>
                disk'[cache_files[Current(p)]] = pickle_dump(cache[p][Current(p)])
          ]_vars

\* both siblings have written the file and exited, and a key that one of
\* them computed and wrote is absent from the file
C17_Witness ==
    /\ \A p \in Procs : pc[p] = "exited" /\ started_after[p] = {}
    /\ \E p \in Procs : \E a \in Args :
            /\ calls[a] = 1
            /\ TestFn.qualname \in DOMAIN cache[p]
            /\ get_args_key(a) \in DOMAIN cache[p][TestFn.qualname]
            /\ disk[cache_files[TestFn.qualname]].kind = "dict"
            /\ get_args_key(a) \notin
                    DOMAIN disk[cache_files[TestFn.qualname]].val

\* C18: save_files never fails because of the state of a file: a file that
\* is missing or does not unpickle to a dict leaves nothing to merge, and
\* the function's file is then written.
C18_FlushNeverFails ==
    /\ [](\A p \in Procs : pc[p] # "failed")
    /\ [][\A p \in Procs :
            (pc[p] = "flush_read" /\ pc'[p] # pc[p]) =>
                /\ pc'[p] = "flush_merge"
                /\ disk[cache_files[Current(p)]].kind # "dict"
                        => changed'[p] = EmptyDict]_vars

\* C19: in the base and durable variants an entry that is in the store
\* stays in it with the same value, whatever is called.
C19_EntriesStay ==
    [][variant # "memory" =>
          \A f \in DOMAIN cache[Main] : \A k \in DOMAIN cache[Main][f] :
              /\ f \in DOMAIN cache'[Main]
              /\ k \in DOMAIN cache'[Main][f]
              /\ cache'[Main][f][k] = cache[Main][f][k]]_vars

\* C20: once the engine is initialized every registered function has a
\* sub-store, and no call of a wrapper ends with a KeyError.
C20_SubStoreForEach ==
    /\ is_init[Main] => DOMAIN cached_functions \subseteq DOMAIN cache[Main]
    /\ returned.kind # "KeyError"

\* C21: in shared mode, while the lock of a function of the bounded-memory
\* variant is free every key of its access order is in its sub-store; the
\* step that deletes the head of the order finds it in the sub-store,
\* deletes it and releases the lock.
C21_AccessOrderInStore ==
    /\ []((variant = "memory" /\ multiprocessing[Main]) =>
            \A f \in DOMAIN accesses[Main] :
                (f \in DOMAIN locks[Main] /\ locks[Main][f] = {}) =>
                    \A i \in 1 .. Len(accesses[Main][f]) :
                        accesses[Main][f][i] \in DOMAIN cache[Main][f])
    /\ [][\A p \in Procs :
            (pc[p] = "post_evict" /\ pc'[p] # pc[p]) =>
                LET victim == Head(Touch(Accesses(p)[fn[p]],
                                         get_args_key(args[p])))
                IN  /\ victim \in DOMAIN cache[Main][fn[p]]
                    /\ victim \notin DOMAIN cache'[Main][fn[p]]
                    /\ locks'[Main][fn[p]] = {}
                    /\ returned'.kind = "value"]_vars

====
